---- MODULE Spec2Model ----
(***************************************************************************)
(* The three request handlers of dynasty-stripe-api:                       *)
(*   - the generic create-session handler    (src/unnamed/part_000:99-135) *)
(*   - the brand-scoped create-session handler (src/unnamed/part_000:38-81)*)
(*   - the webhook receiver                  (src/api/webhook.ts:28-74)    *)
(*                                                                         *)
(* A handler runs synchronously up to its first await, so each synchronous *)
(* segment is one action.  The handlers share no mutable state (only module*)
(* constants read at load), so one invocation is followed at a time; the   *)
(* process serves an unbounded sequence of them.                           *)
(***************************************************************************)
EXTENDS Integers, Sequences, FiniteSets, TLC

(* JavaScript's undefined: an omitted JSON field, an unset environment variable. *)
Absent == "<undefined>"

(* session.url is string | null in the provider's response. *)
NullUrl == "<null>"

(* ------------------------------ bounds -------------------------------- *)

(* The request stream of the webhook delivers the body in at most this many chunks. *)
MaxChunks == 2

(* ------------------------- module constants --------------------------- *)

(* const ALLOWLIST: own properties of the object literal. *)
ALLOWLIST ==
  [quant  |-> {"price_live_quant_starter", "price_live_quant_pro"},
   credit |-> {"price_live_credit_basic", "price_live_credit_premium"}]

(* ALLOWLIST is a plain object literal: a lookup of a key it does not own goes to
   Object.prototype, whose properties are functions or objects, not Sets. *)
ObjectPrototypeKeys == {"constructor", "toString"}

(* ------------------------------ inputs -------------------------------- *)

Endpoints == {"generic", "brand", "webhook"}
Methods == {"POST", "GET", "PUT"}

PriceIds == {Absent, "", "price_live_quant_starter", "price_live_quant_pro",
             "price_live_credit_basic", "price_live_credit_premium", "price_other"}
Brands == {Absent, "quant", "credit", "gold", "constructor", "toString"}
Quantities == {Absent, "2", "3"}
Emails == {Absent, "a@b.example"}
SuccessUrls == {Absent, "https://caller.example/ok"}
CancelUrls == {Absent, "https://caller.example/back"}

(* What reading req.body yields: the platform's lazy getter returns the parsed
   JSON object, undefined when there is no body, or throws on a malformed one. *)
BodyParses == {"object", "undefined", "throws"}

NoFields ==
  [priceId |-> Absent, brand |-> Absent, quantity |-> Absent,
   customerEmail |-> Absent, successUrl |-> Absent, cancelUrl |-> Absent]

Bodies ==
  { [parse |-> "object", fields |-> f] :
      f \in [priceId : PriceIds, brand : Brands, quantity : Quantities,
             customerEmail : Emails, successUrl : SuccessUrls,
             cancelUrl : CancelUrls] }
  \cup { [parse |-> p, fields |-> NoFields] : p \in BodyParses \ {"object"} }

(* The generic endpoint ignores brand; callers there send it rarely. *)
GenericBodies == { b \in Bodies : b.fields.brand \in {Absent, "credit"} }

(* Event types the provider sends; the last one is not handled by the switch. *)
EventTypes == {"checkout.session.completed", "customer.subscription.created",
               "invoice.paid", "charge.refunded"}

(* A payload on the wire is a sequence of bytes, abstracted to three tokens. *)
Payload(type) == <<"{type:", type, "}">>
Payloads == { Payload(t) : t \in EventTypes }

(* Bodies a sender can put on the wire: a payload, a truncated one, nothing. *)
Wires == Payloads \cup { <<"{type:", "invoice.paid">>, <<>> }

Secrets == {"whsec_live", "whsec_other"}

(* The stripe-signature header: the provider signs a payload with a secret at some
   time; the header is absent when the sender sets none. *)
NoSig == [present |-> FALSE, payload |-> <<>>, secret |-> Absent, fresh |-> FALSE]
Sigs ==
  { [present |-> TRUE, payload |-> p, secret |-> s, fresh |-> f] :
      p \in Payloads, s \in Secrets, f \in BOOLEAN } \cup {NoSig}

NoBody == [parse |-> "undefined", fields |-> NoFields]

Requests ==
  { [endpoint |-> "generic", method |-> m, body |-> b, sig |-> NoSig, wire |-> <<>>] :
      m \in Methods, b \in GenericBodies }
  \cup
  { [endpoint |-> "brand", method |-> m, body |-> b, sig |-> NoSig, wire |-> <<>>] :
      m \in Methods, b \in Bodies }
  \cup
  { [endpoint |-> "webhook", method |-> m, body |-> NoBody, sig |-> s, wire |-> w] :
      m \in Methods, s \in Sigs, w \in Wires }

NoRequest ==
  [endpoint |-> "generic", method |-> "GET", body |-> NoBody, sig |-> NoSig,
   wire |-> <<>>]

(* process.env at the start of the process; the program never writes it. *)
Envs ==
  [STRIPE_RESTRICTED_KEY : {Absent, "rk_live_1"},
   STRIPE_WEBHOOK_SECRET : {Absent, "whsec_live"},
   NEXT_PUBLIC_BASE_URL : {Absent, "https://site.example"},
   NEXT_PUBLIC_BASE_URL_QUANT : {Absent, "https://quant.example"},
   NEXT_PUBLIC_BASE_URL_CREDIT : {Absent, "https://credit.example"}]

(* ------------------------------- state -------------------------------- *)

VARIABLES
  env,             \* process.env
  apiKey,          \* the key the Stripe client was constructed with at module load
  endpointSecret,  \* const endpointSecret of webhook.ts, read at module load
  req,             \* the request of the current invocation
  pc,              \* "idle" | "invoked" | "awaitCreate" | "awaitBody" | "done"
  res,             \* the response: how many were sent, and the last status and body
  ops,             \* what the invocation did so far, in order
  chunks,          \* const chunks of buffer(req)
  params           \* the argument of stripe.checkout.sessions.create, once called

vars == <<env, apiKey, endpointSecret, req, pc, res, ops, chunks, params>>

(* ------------------------------ helpers ------------------------------- *)

(* JavaScript truthiness of a string or undefined: !x *)
Falsy(x) == x = Absent \/ x = ""

(* a || b *)
OrElse(a, b) == IF Falsy(a) THEN b ELSE a

(* Destructuring default: x = d applies only to undefined. *)
Default(x, d) == IF x = Absent THEN d ELSE x

Op(name, arg) == [op |-> name, arg |-> arg]

Count(seq, name) == Cardinality({ i \in DOMAIN seq : seq[i].op = name })

NoResponse == [count |-> 0, status |-> 0, kind |-> "none", val |-> ""]

(* res.status(s).json({error: msg}) and the other response shapes. *)
JsonError(msg) == [kind |-> "json.error", val |-> msg]
JsonUrlOfNothing(url) == [kind |-> "json.url", val |-> NullUrl]
JsonUrl(url) == [kind |-> "json.url", val |-> url]
JsonReceived == [kind |-> "json.received", val |-> "true"]
Text(msg) == [kind |-> "text", val |-> msg]

Send(r, status, body) ==
  [count |-> r.count + 1, status |-> status, kind |-> body.kind, val |-> body.val]

(* req.method === 'GET': a handler that rejects only GET. *)
NotPostOnlyGet(method) == method = "GET"

(* req.method !== 'POST', the first statement of each handler *)
NotPost(method) == method # "POST"

(* ---------------------- create-session: helpers ------------------------ *)

(* Number(quantity) of a JSON value. *)
ToNumber(q) == ("2" :> 2 @@ "3" :> 3)[q]

(* quantity = 1 in the destructuring, then Number(quantity). *)
QuantityOf(q) == IF q = Absent THEN 1 ELSE ToNumber(q)

(* getBaseUrl with the brands' variables exchanged. *)
getBaseUrlSwapped(brand) ==
  IF brand = "credit" THEN env.NEXT_PUBLIC_BASE_URL_QUANT
  ELSE IF brand = "quant" THEN env.NEXT_PUBLIC_BASE_URL_CREDIT
  ELSE env.NEXT_PUBLIC_BASE_URL

(* getBaseUrl falling back to the generic variable when the brand's own is unset. *)
getBaseUrlWithFallback(brand) ==
  IF brand = "credit"
  THEN OrElse(env.NEXT_PUBLIC_BASE_URL_CREDIT, env.NEXT_PUBLIC_BASE_URL)
  ELSE IF brand = "quant"
  THEN OrElse(env.NEXT_PUBLIC_BASE_URL_QUANT, env.NEXT_PUBLIC_BASE_URL)
  ELSE env.NEXT_PUBLIC_BASE_URL

(* choose base URL by brand *)
getBaseUrl(brand) ==
  IF brand = "credit" THEN env.NEXT_PUBLIC_BASE_URL_CREDIT
  ELSE IF brand = "quant" THEN env.NEXT_PUBLIC_BASE_URL_QUANT
  ELSE env.NEXT_PUBLIC_BASE_URL

(* ALLOWLIST[brand]?.has(priceId): "has", "hasNot", or "throws" when the lookup
   yields an inherited property, which is neither nullish nor a Set, so that
   calling its undefined .has raises a TypeError. *)
AllowlistHas(brand, priceId) ==
  IF brand \in DOMAIN ALLOWLIST
  THEN IF priceId \in ALLOWLIST[brand] THEN "has" ELSE "hasNot"
  ELSE IF brand \in ObjectPrototypeKeys THEN "throws"
  ELSE "hasNot"

NoParams ==
  [mode |-> "none", customer_email |-> Absent, price |-> Absent, quantity |-> 0,
   success_url |-> Absent, cancel_url |-> Absent, allow_promotion_codes |-> FALSE,
   automatic_tax |-> FALSE]

(* The object literal passed to stripe.checkout.sessions.create. *)
SessionParams(f, baseUrl) ==
  [mode |-> "subscription",
   customer_email |-> IF Falsy(f.customerEmail) THEN Absent ELSE f.customerEmail,
   price |-> f.priceId,
   quantity |-> QuantityOf(f.quantity),
   success_url |->
     OrElse(f.successUrl,
            baseUrl \o "/checkout/success?session_id={CHECKOUT_SESSION_ID}"),
   cancel_url |-> OrElse(f.cancelUrl, baseUrl \o "/pricing"),
   allow_promotion_codes |-> TRUE,
   automatic_tax |-> FALSE]

(* How await stripe.checkout.sessions.create(...) settles: it resolves with a
   session, or rejects; a client constructed without a key is always rejected. *)
ProviderOutcomes(key) ==
  IF Falsy(key)
  THEN { [ok |-> FALSE, url |-> Absent, detail |-> "authentication"] }
  ELSE { [ok |-> TRUE, url |-> u, detail |-> ""] :
           u \in {"https://checkout.stripe.example/c/1", NullUrl} }
       \cup
       { [ok |-> FALSE, url |-> Absent, detail |-> d] :
           d \in {"network", "invalid price", "rejected"} }

(* The handler returns res.status(status)...: one response, invocation over. *)
Return(did, status, body) ==
  /\ res' = Send(res, status, body)
  /\ ops' = ops \o did \o <<Op("respond", body.val)>>
  /\ pc' = "done"
  /\ UNCHANGED <<env, apiKey, endpointSecret, req, chunks, params>>

(* A catch that surfaces the error's detail to the caller. *)
CatchCreateSessionLeaking(did, detail) ==
  Return(did \o <<Op("log", "create-session error: " \o detail)>>,
         500, JsonError("Failed to create session: " \o detail))

(* catch (err) of the create-session handlers *)
CatchCreateSession(did, detail) ==
  Return(did \o <<Op("log", "create-session error: " \o detail)>>,
         500, JsonError("Failed to create session"))

(* The await of the provider call suspends the handler. *)
AwaitCreate(did, p) ==
  /\ params' = p
  /\ ops' = ops \o did \o <<Op("provider", p.price)>>
  /\ pc' = "awaitCreate"
  /\ UNCHANGED <<env, apiKey, endpointSecret, req, res, chunks>>

(* ------------------------------ actions ------------------------------- *)

Init ==
  /\ env \in Envs
  /\ apiKey = env.STRIPE_RESTRICTED_KEY
  /\ endpointSecret = env.STRIPE_WEBHOOK_SECRET
  /\ req = NoRequest
  /\ pc = "idle"
  /\ res = NoResponse
  /\ ops = <<>>
  /\ chunks = <<>>
  /\ params = NoParams

(* The hosting platform invokes a handler with a request. *)
Invoke ==
  /\ pc = "idle"
  /\ req' \in Requests
  /\ pc' = "invoked"
  /\ UNCHANGED <<env, apiKey, endpointSecret, res, ops, chunks, params>>

(* The handler's promise resolves: the invocation is over and nothing of it is
   kept; only the module constants live on to the next invocation. *)
Complete ==
  /\ pc = "done"
  /\ pc' = "idle"
  /\ req' = NoRequest
  /\ res' = NoResponse
  /\ ops' = <<>>
  /\ chunks' = <<>>
  /\ params' = NoParams
  /\ UNCHANGED <<env, apiKey, endpointSecret>>

(* The generic create-session handler, up to its await. *)
GenericHandler ==
  /\ pc = "invoked"
  /\ req.endpoint = "generic"
  /\ IF NotPost(req.method)
     THEN Return(<<>>, 405, JsonError("Method not allowed"))
     ELSE IF req.body.parse = "throws"
     THEN CatchCreateSession(<<Op("req.body", "")>>, "Invalid JSON")
     ELSE LET f == req.body.fields
              baseUrl == env.NEXT_PUBLIC_BASE_URL
              read == <<Op("req.body", "")>>
              readEnv == read \o <<Op("env", "NEXT_PUBLIC_BASE_URL")>>
          IN IF Falsy(f.priceId)
             THEN Return(read, 400, JsonError("Missing priceId"))
             ELSE IF Falsy(baseUrl)
             THEN Return(readEnv, 500, JsonError("Missing NEXT_PUBLIC_BASE_URL env"))
             ELSE AwaitCreate(readEnv, SessionParams(f, baseUrl))

(* The brand-scoped create-session handler, up to its await. *)
BrandHandler ==
  /\ pc = "invoked"
  /\ req.endpoint = "brand"
  /\ IF NotPost(req.method)
     THEN Return(<<>>, 405, JsonError("Method not allowed"))
     ELSE IF req.body.parse = "throws"
     THEN CatchCreateSession(<<Op("req.body", "")>>, "Invalid JSON")
     ELSE LET f == req.body.fields
              brand == Default(f.brand, "quant")
              baseUrl == getBaseUrl(brand)
              read == <<Op("req.body", "")>>
              readEnv == read \o <<Op("env", "BASE_URL for " \o brand)>>
          IN IF Falsy(f.priceId)
             THEN Return(read, 400, JsonError("Missing priceId"))
             ELSE IF AllowlistHas(brand, f.priceId) = "throws"
             THEN CatchCreateSession(read, "ALLOWLIST[brand]?.has is not a function")
             ELSE IF AllowlistHas(brand, f.priceId) = "hasNot"
             THEN Return(read, 400, JsonError("Invalid priceId for brand " \o brand))
             ELSE IF Falsy(baseUrl)
             THEN Return(readEnv, 500, JsonError("Missing BASE_URL env for brand"))
             ELSE AwaitCreate(readEnv, SessionParams(f, baseUrl))

(* The provider call settles and a create-session handler resumes. *)
Resume(endpoint) ==
  /\ pc = "awaitCreate"
  /\ req.endpoint = endpoint
  /\ \E session \in ProviderOutcomes(apiKey) :
       IF session.ok
       THEN Return(<<Op("resolved", session.url)>>, 200, JsonUrl(session.url))
       ELSE CatchCreateSession(<<Op("rejected", session.detail)>>, session.detail)

GenericResume == Resume("generic")

BrandResume == Resume("brand")

(* ------------------------------ webhook ------------------------------- *)

RECURSIVE Concat(_)
(* Buffer.concat(chunks) *)
Concat(cs) == IF cs = <<>> THEN <<>> ELSE Head(cs) \o Concat(Tail(cs))

(* typeof chunk === 'string' ? Buffer.from(chunk) : chunk: the chunk's bytes. *)
ToBuffer(chunk) == IF chunk.isString THEN chunk.data ELSE chunk.data

(* JSON.parse of a verified payload: the event, of which only type is used. *)
ParseEvent(rawBody) == [type |-> rawBody[2]]

(* constructEvent that does not compare the signing secret. *)
constructEventAnySecret(rawBody, sig, secret) ==
  IF ~sig.present
  THEN [ok |-> FALSE, type |-> "",
        message |-> "Unable to extract timestamp and signatures from header"]
  ELSE IF sig.payload # rawBody
  THEN [ok |-> FALSE, type |-> "",
        message |-> "No signatures found matching the expected signature for payload"]
  ELSE IF ~sig.fresh
  THEN [ok |-> FALSE, type |-> "", message |-> "Timestamp outside the tolerance zone"]
  ELSE [ok |-> TRUE, type |-> ParseEvent(rawBody).type, message |-> ""]

(* stripe.webhooks.constructEvent(rawBody, sig, secret): the event when the header
   carries a signature of exactly these bytes under this secret, within the
   tolerance; otherwise it throws with a message. *)
constructEvent(rawBody, sig, secret) ==
  IF ~sig.present
  THEN [ok |-> FALSE, type |-> "",
        message |-> "Unable to extract timestamp and signatures from header"]
  ELSE IF sig.secret # secret \/ sig.payload # rawBody
  THEN [ok |-> FALSE, type |-> "",
        message |-> "No signatures found matching the expected signature for payload"]
  ELSE IF ~sig.fresh
  THEN [ok |-> FALSE, type |-> "", message |-> "Timestamp outside the tolerance zone"]
  ELSE [ok |-> TRUE, type |-> ParseEvent(rawBody).type, message |-> ""]

(* The cases of switch (event.type) that have a handler of their own. *)
HandledTypes ==
  {"checkout.session.completed", "customer.subscription.created", "invoice.paid"}

(* What the switch logs for an event type. *)
Dispatch(type) ==
  IF type \in HandledTypes THEN <<>>
  ELSE <<Op("log", "Unhandled event type: " \o type)>>

(* The webhook handler without its check of endpointSecret. *)
WebhookHandlerNoSecretCheck ==
  /\ pc = "invoked"
  /\ req.endpoint = "webhook"
  /\ IF NotPost(req.method)
     THEN Return(<<>>, 405, Text("Method Not Allowed"))
     ELSE /\ pc' = "awaitBody"
          /\ ops' = ops \o <<Op("buffer", "")>>
          /\ UNCHANGED <<env, apiKey, endpointSecret, req, res, chunks, params>>

(* The webhook handler, up to await buffer(req). *)
WebhookHandler ==
  /\ pc = "invoked"
  /\ req.endpoint = "webhook"
  /\ IF NotPost(req.method)
     THEN Return(<<>>, 405, Text("Method Not Allowed"))
     ELSE IF Falsy(endpointSecret)
     THEN Return(<<Op("log", "Missing STRIPE_WEBHOOK_SECRET env")>>,
                 500, Text("Webhook misconfigured"))
     ELSE /\ pc' = "awaitBody"
          /\ ops' = ops \o <<Op("buffer", "")>>
          /\ UNCHANGED <<env, apiKey, endpointSecret, req, res, chunks, params>>

(* for await (const chunk of req): the stream delivers the next chunk. *)
BufferChunk ==
  /\ pc = "awaitBody"
  /\ LET got == Len(Concat(chunks))
         left == Len(req.wire) - got
     IN \E n \in 1..left, isString \in BOOLEAN :
          /\ n = left \/ Len(chunks) + 1 < MaxChunks
          /\ chunks' = Append(chunks,
               ToBuffer([isString |-> isString,
                         data |-> SubSeq(req.wire, got + 1, got + n)]))
  /\ ops' = ops \o <<Op("chunk", "")>>
  /\ UNCHANGED <<env, apiKey, endpointSecret, req, pc, res, params>>

(* The stream ends: buffer returns and the handler runs to its response. *)
BufferEnd ==
  /\ pc = "awaitBody"
  /\ Len(Concat(chunks)) = Len(req.wire)
  /\ LET rawBody == Concat(chunks)
         sig == req.sig
         event == constructEvent(rawBody, sig, endpointSecret)
         did == <<Op("sig", ""), Op("verify", "")>>
     IN IF ~event.ok
        THEN Return(did \o <<Op("log", "Webhook signature verification failed: "
                                         \o event.message)>>,
                    400, Text("Webhook Error: " \o event.message))
        ELSE Return(did \o Dispatch(event.type), 200, JsonReceived)

(* A stream failure that no catch answers: the invocation is left without a
   response. *)
BufferErrorUncaught ==
  /\ pc = "awaitBody"
  /\ pc' = "crashed"
  /\ UNCHANGED <<env, apiKey, endpointSecret, req, res, ops, chunks, params>>

(* The stream fails while the body is read: the outer catch answers. *)
BufferError ==
  /\ pc = "awaitBody"
  /\ Return(<<Op("log", "webhook handler error: aborted")>>,
            500, Text("Internal Server Error"))

(* --------------------------- specification ---------------------------- *)

Next ==
  \/ Invoke
  \/ Complete
  \/ GenericHandler
  \/ GenericResume
  \/ BrandHandler
  \/ BrandResume
  \/ WebhookHandler
  \/ BufferChunk
  \/ BufferEnd
  \/ BufferError

Spec == Init /\ [][Next]_vars

(* Every step of a handler: the event loop runs a handler that can run, the
   provider call settles (the client has a timeout), the request stream
   delivers, ends or fails. *)
HandlerStep ==
  \/ GenericHandler
  \/ GenericResume
  \/ BrandHandler
  \/ BrandResume
  \/ WebhookHandler
  \/ BufferChunk
  \/ BufferEnd
  \/ BufferError
  \/ Complete

LiveSpec == Spec /\ WF_vars(HandlerStep)

(* ------------------------------ claims -------------------------------- *)

Done == pc = "done"

(* The request is a POST whose JSON body could be read. *)
ReadablePost(endpoint) ==
  /\ req.endpoint = endpoint
  /\ req.method = "POST"
  /\ req.body.parse # "throws"

(* A priceId the caller supplied: a non-empty value. *)
Present(x) == x # Absent /\ x # ""

(* The brand of a brand-scoped request: "quant" when omitted. *)
ResolvedBrand == IF req.body.fields.brand = Absent THEN "quant" ELSE req.body.fields.brand

(* The allow-list of a brand: its set of price ids, none for an unlisted brand. *)
AllowListOf(brand) ==
  IF brand = "quant" THEN {"price_live_quant_starter", "price_live_quant_pro"}
  ELSE IF brand = "credit" THEN {"price_live_credit_basic", "price_live_credit_premium"}
  ELSE {}

Did(name) == Count(ops, name) > 0

Answered(status, kind, val) ==
  /\ res.count = 1
  /\ res.status = status
  /\ res.kind = kind
  /\ res.val = val

(* C1: in the brand-scoped handler every POST request with a present priceId that is
   not in the allow-list of the resolved brand is answered 400 "Invalid priceId for
   brand {brand}" and the provider is never called, whatever brand the caller sends;
   the provider is called only for a priceId in the allow-list of the resolved brand. *)
C1_NotAllowedIs400 ==
  (ReadablePost("brand") /\ Present(req.body.fields.priceId)) =>
    /\ Did("provider") => req.body.fields.priceId \in AllowListOf(ResolvedBrand)
    /\ (Done /\ req.body.fields.priceId \notin AllowListOf(ResolvedBrand)) =>
         /\ Answered(400, "json.error", "Invalid priceId for brand " \o ResolvedBrand)
         /\ ~Did("provider")

(* C3: on each of the three endpoints a request whose method is not POST is answered
   405 and nothing else is done with it: no body field is read, no body is buffered,
   no signature is verified, no provider call is issued. *)
C3_NonPostIs405 ==
  (req.method # "POST" /\ pc \notin {"idle", "invoked"}) =>
    /\ Done
    /\ res.count = 1
    /\ res.status = 405
    /\ Len(ops) = 1
    /\ ops[1].op = "respond"
    /\ chunks = <<>>
    /\ params = NoParams

C3_Witness ==
  /\ Done
  /\ req.endpoint = "webhook"
  /\ req.method = "PUT"
  /\ req.sig.present
  /\ req.wire = req.sig.payload
  /\ res.status = 405

(* C4: in the generic handler, a POST request that omits priceId is answered 400
   "Missing priceId" with no provider call, whatever the environment and the other
   fields; when priceId is present, the base URL is configured and the provider call
   succeeds, the answer is 200 with the url the provider call returned. *)
C4_GenericMissingOrUrl ==
  (Done /\ ReadablePost("generic")) =>
    /\ req.body.fields.priceId = Absent =>
         /\ Answered(400, "json.error", "Missing priceId")
         /\ ~Did("provider")
    /\ \A i \in DOMAIN ops :
         (/\ ops[i].op = "resolved"
          /\ Present(req.body.fields.priceId)
          /\ env.NEXT_PUBLIC_BASE_URL # Absent)
         => Answered(200, "json.url", ops[i].arg)

C4_Witness ==
  /\ Done
  /\ ReadablePost("generic")
  /\ req.body.fields.priceId = "price_other"
  /\ Did("resolved")
  /\ res.status = 200
  /\ res.val = "https://checkout.stripe.example/c/1"

C4_WitnessMissing ==
  /\ Done
  /\ ReadablePost("generic")
  /\ req.body.fields.priceId = Absent
  /\ req.body.fields.successUrl # Absent
  /\ env.NEXT_PUBLIC_BASE_URL = Absent
  /\ res.status = 400

(* The signature header matches the body sent and the configured secret. *)
SignatureMatches ==
  /\ req.sig.present
  /\ req.sig.payload = req.wire
  /\ req.sig.secret = env.STRIPE_WEBHOOK_SECRET
  /\ req.sig.fresh

VerificationErrors ==
  {"Unable to extract timestamp and signatures from header",
   "No signatures found matching the expected signature for payload",
   "Timestamp outside the tolerance zone"}

(* C2: in the webhook receiver, for a POST request with the signing secret
   configured, once the signature has been verified: a signature that does not
   match the raw body and the secret is answered 400 "Webhook Error: {detail}"; a
   matching one is answered 200 {received:true}, the same for every event type,
   handled or unknown; only the log differs (an unknown type is logged). *)
C2_WebhookVerify ==
  (/\ Done
   /\ req.endpoint = "webhook"
   /\ req.method = "POST"
   /\ env.STRIPE_WEBHOOK_SECRET # Absent
   /\ Did("verify"))
  => IF SignatureMatches
     THEN /\ Answered(200, "json.received", "true")
          /\ Did("log") <=> req.wire[2] = "charge.refunded"
     ELSE \E detail \in VerificationErrors :
            Answered(400, "text", "Webhook Error: " \o detail)

C2_Witness ==
  /\ Done
  /\ req.endpoint = "webhook"
  /\ SignatureMatches
  /\ req.wire[2] = "charge.refunded"
  /\ Len(chunks) = 2
  /\ res.status = 200

C2_WitnessBad ==
  /\ Done
  /\ req.endpoint = "webhook"
  /\ req.sig.present
  /\ req.sig.secret = env.STRIPE_WEBHOOK_SECRET
  /\ req.sig.payload # req.wire
  /\ Len(req.wire) = 3
  /\ res.status = 400

(* The brand's own base URL variable. *)
OwnBaseUrl(brand) ==
  IF brand = "credit" THEN env.NEXT_PUBLIC_BASE_URL_CREDIT
  ELSE env.NEXT_PUBLIC_BASE_URL_QUANT

(* The request passed the priceId and allow-list checks of the brand-scoped
   handler. *)
PassedAllowList ==
  /\ ReadablePost("brand")
  /\ pc \in {"awaitCreate", "done"}
  /\ Present(req.body.fields.priceId)
  /\ req.body.fields.priceId \in AllowListOf(ResolvedBrand)

(* C5: in the brand-scoped handler a brand whose own base URL is not configured
   (or an unrecognized brand) falls through to the generic fallback base URL: the
   request is answered 500 Server-Misconfigured only if no base URL resolves at
   all, and otherwise the provider is called with redirect URLs built on the
   fallback. *)
C5_FallsThroughToFallback ==
  (PassedAllowList /\ OwnBaseUrl(ResolvedBrand) = Absent) =>
    IF env.NEXT_PUBLIC_BASE_URL = Absent
    THEN Answered(500, "json.error", "Missing BASE_URL env for brand")
    ELSE /\ Did("provider")
         /\ params.cancel_url
              = OrElse(req.body.fields.cancelUrl, env.NEXT_PUBLIC_BASE_URL \o "/pricing")

(* C6: in the brand-scoped handler, for a POST request that passed the priceId and
   allow-list checks: brand "credit" resolves to the credit base URL, "quant" or an
   omitted brand to the quant base URL; the default success and cancel URLs passed
   to the provider are built on that URL; when it is unset the answer is 500 and
   no provider call is issued. *)
C6_BrandBaseUrl ==
  PassedAllowList =>
    LET own == IF req.body.fields.brand = "credit"
               THEN env.NEXT_PUBLIC_BASE_URL_CREDIT
               ELSE env.NEXT_PUBLIC_BASE_URL_QUANT
    IN IF own = Absent
       THEN /\ Done
            /\ res.count = 1
            /\ res.status = 500
            /\ ~Did("provider")
            /\ params = NoParams
       ELSE /\ Count(ops, "provider") = 1
            /\ params.success_url =
                 (IF req.body.fields.successUrl = Absent
                  THEN own \o "/checkout/success?session_id={CHECKOUT_SESSION_ID}"
                  ELSE req.body.fields.successUrl)
            /\ params.cancel_url =
                 (IF req.body.fields.cancelUrl = Absent
                  THEN own \o "/pricing"
                  ELSE req.body.fields.cancelUrl)

C6_Witness ==
  /\ pc = "awaitCreate"
  /\ req.endpoint = "brand"
  /\ req.body.fields.brand = "credit"
  /\ req.body.fields.successUrl = Absent
  /\ env.NEXT_PUBLIC_BASE_URL_QUANT # Absent
  /\ params.success_url
       = "https://credit.example/checkout/success?session_id={CHECKOUT_SESSION_ID}"
  /\ params.cancel_url = "https://caller.example/back"

C6_WitnessUnset ==
  /\ Done
  /\ req.endpoint = "brand"
  /\ req.body.fields.brand = Absent
  /\ req.body.fields.priceId = "price_live_quant_pro"
  /\ env.NEXT_PUBLIC_BASE_URL_QUANT = Absent
  /\ env.NEXT_PUBLIC_BASE_URL_CREDIT # Absent
  /\ res.status = 500

(* The request passed the method and input checks of its endpoint, so that the
   configuration is what decides its answer. *)
PassedValidation ==
  /\ Done
  /\ \/ ReadablePost("generic") /\ Present(req.body.fields.priceId)
     \/ PassedAllowList
     \/ req.endpoint = "webhook" /\ req.method = "POST"

(* The base URL a create-session request needs. *)
NeededBaseUrl ==
  IF req.endpoint = "generic" THEN env.NEXT_PUBLIC_BASE_URL
  ELSE OwnBaseUrl(ResolvedBrand)

(* The Server-Misconfigured answer documented for the request's endpoint. *)
AnsweredMisconfigured ==
  CASE req.endpoint = "generic" ->
         Answered(500, "json.error", "Missing NEXT_PUBLIC_BASE_URL env")
    [] req.endpoint = "brand" ->
         Answered(500, "json.error", "Missing BASE_URL env for brand")
    [] req.endpoint = "webhook" ->
         Answered(500, "text", "Webhook misconfigured")

(* C7 as claimed: when a required configuration value (the provider API
   credential, the webhook signing secret, the base URL) is absent while a request
   is handled, the request gets the Server-Misconfigured answer of its endpoint. *)
C7_AbsentValueIsMisconfigured ==
  PassedValidation =>
    /\ env.STRIPE_RESTRICTED_KEY = Absent => AnsweredMisconfigured
    /\ (req.endpoint = "webhook" /\ env.STRIPE_WEBHOOK_SECRET = Absent)
         => AnsweredMisconfigured
    /\ (req.endpoint # "webhook" /\ NeededBaseUrl = Absent) => AnsweredMisconfigured

(* C7 as amended: the webhook signing secret (read at module load) and the base
   URL (read from the environment by the handler) are checked while the request
   is handled, not at startup: a request that passed the method and input checks
   of its endpoint gets the Server-Misconfigured answer of that endpoint exactly
   when the value it needs is absent.  The provider API credential is checked by
   no handler: without it a create-session request whose base URL is set is
   answered by the generic 500 "Failed to create session" of the failed provider
   call, and the webhook is answered as with it. *)
C7_MisconfiguredIffSecretOrBaseUrlAbsent ==
  PassedValidation =>
    /\ req.endpoint = "webhook" =>
         (env.STRIPE_WEBHOOK_SECRET = Absent <=> AnsweredMisconfigured)
    /\ req.endpoint # "webhook" =>
         (NeededBaseUrl = Absent <=> AnsweredMisconfigured)
    /\ (/\ req.endpoint # "webhook"
        /\ env.STRIPE_RESTRICTED_KEY = Absent
        /\ NeededBaseUrl # Absent)
       => Answered(500, "json.error", "Failed to create session")

C7_Witness ==
  /\ Done
  /\ PassedAllowList
  /\ ResolvedBrand = "credit"
  /\ env.NEXT_PUBLIC_BASE_URL_CREDIT = Absent
  /\ env.NEXT_PUBLIC_BASE_URL # Absent
  /\ env.STRIPE_RESTRICTED_KEY # Absent
  /\ res.val = "Missing BASE_URL env for brand"

C7_WitnessNoKey ==
  /\ Done
  /\ ReadablePost("generic")
  /\ env.STRIPE_RESTRICTED_KEY = Absent
  /\ Did("provider")
  /\ res.val = "Failed to create session"

(* C8: in the webhook receiver a POST request handled while the signing secret is
   not configured is answered 500 "Webhook misconfigured" before the body is read:
   the body is never buffered, the signature header never read, verification never
   attempted. *)
C8_NoSecretFailsFast ==
  (/\ req.endpoint = "webhook"
   /\ req.method = "POST"
   /\ env.STRIPE_WEBHOOK_SECRET = Absent
   /\ pc # "invoked")
  => /\ Done
     /\ Answered(500, "text", "Webhook misconfigured")
     /\ chunks = <<>>
     /\ ~Did("buffer")
     /\ ~Did("chunk")
     /\ ~Did("sig")
     /\ ~Did("verify")

C8_Witness ==
  /\ Done
  /\ req.endpoint = "webhook"
  /\ req.method = "POST"
  /\ env.STRIPE_WEBHOOK_SECRET = Absent
  /\ req.sig.present
  /\ Len(req.wire) = 3
  /\ res.status = 500

(* C9: in both create-session handlers an invocation issues at most one provider
   call and never retries it: when the call fails, the invocation answers at once
   500 with the fixed error "Failed to create session", whatever the provider's
   error detail was. *)
C9_OneCallNoRetry ==
  req.endpoint \in {"generic", "brand"} =>
    /\ Count(ops, "provider") <= 1
    /\ Did("rejected") =>
         /\ Done
         /\ Answered(500, "json.error", "Failed to create session")
         /\ Count(ops, "provider") = 1
         /\ Count(ops, "rejected") = 1
         /\ ops[Len(ops) - 2].op = "rejected"
         /\ ops[Len(ops) - 1].op = "log"

C9_Witness ==
  /\ Done
  /\ req.endpoint = "brand"
  /\ env.STRIPE_RESTRICTED_KEY # Absent
  /\ \E i \in DOMAIN ops : ops[i] = Op("rejected", "invalid price")
  /\ res.status = 500

(* C10: every invocation of each of the three handlers eventually sends a
   response, and exactly one, on every path: method rejection, validation failure,
   misconfiguration, verification failure, provider success, provider failure, an
   exception thrown in the handler body (also while the webhook body is read),
   which becomes a 500. *)
C10_ExactlyOneResponse ==
  /\ [](res.count <= 1)
  /\ [](Done <=> res.count = 1)
  /\ [](pc \in {"idle", "invoked", "awaitCreate", "awaitBody", "done"})
  /\ [](Did("rejected") \/ (Did("req.body") /\ req.body.parse = "throws")
          => res.status = 500)
  /\ \A e \in Endpoints : (pc = "invoked" /\ req.endpoint = e) ~> Done

C10_Witness ==
  /\ Done
  /\ req.endpoint = "webhook"
  /\ Len(chunks) = 1
  /\ Len(req.wire) = 3
  /\ res.count = 1
  /\ res.val = "Internal Server Error"

====
